---- MODULE Spec2Model ----
(***************************************************************************)
(* DAM (Differentiable Adaptive Merging): the merge layer of               *)
(* modeling/dam.py and the trainer of custom_trainer/dam_trainer_top_k.py. *)
(*                                                                         *)
(* Numbers.  Tensors hold integers.  A vector is a sequence, a matrix a    *)
(* sequence of rows (out_features rows of in_features columns).  Source    *)
(* weights, biases and layer inputs are whole numbers; merger              *)
(* coefficients, the outputs of the nonlinearities, cosine similarities    *)
(* and the regularisation coefficients are fixed-point hundredths          *)
(* (100 stands for 1.0), so a merged weight is in hundredths and a         *)
(* penalty (coefficient times norm or similarity) in units of 1e-4.        *)
(***************************************************************************)
EXTENDS Integers, Sequences, FiniteSets, TLC

VARIABLES
    layer,        \* SpecLayer: one DAMLinearLayer (the fields of self)
    changed,      \* SpecLayer, history: the last optimizer write changed the merged weight or bias
    model,        \* SpecTrainer: self.model, its modules in pre-order (ParameterList children left out)
    trainer,      \* SpecTrainer: the DAMTrainer's configuration fields
    saved_model,  \* SpecTrainer: the modules of the model save_pretrained persisted, None before
    op,           \* the operation performed last
    args,         \* its arguments
    ret           \* its result

vars == <<layer, changed, model, trainer, saved_model, op, args, ret>>

----------------------------------------------------------------------------
(* Bounds *)

\* the largest num_models of a layer
MaxModels == 3

----------------------------------------------------------------------------
(* Python values and tensor arithmetic (torch) *)

\* Python's None; an optional number n is <<n>>, an optional tensor the tensor
None == <<>>

Some(n) == <<n>>

Min(a, b) == IF a <= b THEN a ELSE b

Max(a, b) == IF a >= b THEN a ELSE b

Abs(x) == IF x < 0 THEN -x ELSE x

RECURSIVE SumSeq(_)
SumSeq(s) == IF Len(s) = 0 THEN 0 ELSE s[1] + SumSeq(Tail(s))

\* floor of the square root, by bisection on [lo, hi]
RECURSIVE SqrtBetween(_, _, _)
SqrtBetween(n, lo, hi) ==
    IF lo >= hi THEN lo
    ELSE LET mid == (lo + hi + 1) \div 2
         IN  IF mid * mid <= n THEN SqrtBetween(n, mid, hi)
                               ELSE SqrtBetween(n, lo, mid - 1)

ISqrt(n) == SqrtBetween(n, 0, Min(n, 40000))

\* torch.tanh on hundredths: the Pade approximant x(27 + x^2)/(27 + 9x^2), odd
torch_tanh(x) ==
    LET a == Abs(x)
        t == (a * (270000 + a * a)) \div (270000 + 9 * a * a)
    IN  IF x < 0 THEN -t ELSE t

\* torch.sigmoid on hundredths: (1 + tanh(x/2))/2
torch_sigmoid(x) ==
    LET a == Abs(x)
        h == (a * (1080000 + a * a)) \div (2 * (1080000 + 9 * a * a))
    IN  IF x < 0 THEN 50 - h ELSE 50 + h

\* torch.relu
torch_relu(x) == Max(x, 0)

\* merger * weight: a vector of in_features broadcast against the rows of an
\* [out_features, in_features] matrix multiplies column j by merger[j]
MulBroadcastCols(merger, weight) ==
    [r \in 1..Len(weight) |-> [c \in 1..Len(weight[r]) |-> merger[c] * weight[r][c]]]

\* bias_merger * bias: a one-element vector broadcast against a vector
MulBroadcastScalar(merger, bias) == [r \in 1..Len(bias) |-> merger[1] * bias[r]]

AddMat(a, b) == [r \in 1..Len(a) |-> [c \in 1..Len(a[r]) |-> a[r][c] + b[r][c]]]

AddVec(a, b) == [r \in 1..Len(a) |-> a[r] + b[r]]

\* Python's zip: as long as the shorter argument
Zip(a, b) == [k \in 1..Min(Len(a), Len(b)) |-> <<a[k], b[k]>>]

\* Python's sum(...) over a non-empty sequence of matrices: 0 + t1 + t2 + ...
RECURSIVE PySumMat(_)
PySumMat(terms) ==
    IF Len(terms) = 1 THEN terms[1]
    ELSE AddMat(PySumMat(SubSeq(terms, 1, Len(terms) - 1)), terms[Len(terms)])

\* the same over vectors
RECURSIVE PySumVec(_)
PySumVec(terms) ==
    IF Len(terms) = 1 THEN terms[1]
    ELSE AddVec(PySumVec(SubSeq(terms, 1, Len(terms) - 1)), terms[Len(terms)])

Dot(a, b) == SumSeq([j \in 1..Len(a) |-> a[j] * b[j]])

\* tensor.norm(1) and tensor.norm(2) of a vector
Norm1(v) == SumSeq([j \in 1..Len(v) |-> Abs(v[j])])

Norm2(v) == ISqrt(Dot(v, v))

\* F.cosine_similarity(a, b, dim=0), in hundredths: the dot product over the
\* product of the norms, each norm clamped from below by eps (one unit here)
F_cosine_similarity(a, b) ==
    (100 * Dot(a, b)) \div (Max(Norm2(a), 1) * Max(Norm2(b), 1))

\* F.linear(x, weight, bias) for one input row x: x W^T + bias
F_linear(x, weight, bias) ==
    [r \in 1..Len(weight) |->
        Dot(x, weight[r]) + (IF bias = None THEN 0 ELSE bias[r])]

\* itertools.combinations(s, 2): the pairs in lexicographic order of position
RECURSIVE itertools_combinations2(_)
itertools_combinations2(s) ==
    IF Len(s) < 2 THEN <<>>
    ELSE [k \in 1..(Len(s) - 1) |-> <<s[1], s[k + 1]>>]
         \o itertools_combinations2(Tail(s))

----------------------------------------------------------------------------
(* DAMBaseLayer / DAMLinearLayer *)

NonLinearities == {"tanh", "sigmoid", "relu", "identity", "None"}

\* DAMLinearLayer.__init__ with DAMBaseLayer.__init__: N zero weights, N
\* mergers ones(in_features) * init_merger_values[i] and, with bias, N zero
\* biases and N bias mergers ones(1) * init_merger_values[i].  Parameters are
\* created trainable.  The layer is 2 in_features by 3 out_features.
DAMLinearLayer(num_models, bias, init_merger_values, non_linearity) ==
    LET init == IF init_merger_values = <<>>
                THEN [i \in 1..num_models |-> 100 \div num_models]
                ELSE init_merger_values
    IN  [ num_models |-> num_models,
          non_linearity |-> non_linearity,
          weights |-> [i \in 1..num_models |-> << <<0, 0>>, <<0, 0>>, <<0, 0>> >>],
          mergers |-> [i \in 1..num_models |-> <<init[i], init[i]>>],
          has_biases |-> bias,
          biases |-> IF bias THEN [i \in 1..num_models |-> <<0, 0, 0>>] ELSE <<>>,
          bias_mergers |-> IF bias THEN [i \in 1..num_models |-> <<init[i]>>] ELSE <<>>,
          weights_requires_grad |-> [i \in 1..num_models |-> TRUE],
          mergers_requires_grad |-> [i \in 1..num_models |-> TRUE],
          bias_mergers_requires_grad |-> IF bias THEN [i \in 1..num_models |-> TRUE] ELSE <<>> ]

\* apply_non_linearity on one element
apply_non_linearity_elem(self, x) ==
    IF self.non_linearity = "tanh" THEN torch_tanh(x)
    ELSE IF self.non_linearity = "sigmoid" THEN torch_sigmoid(x)
    ELSE IF self.non_linearity = "relu" THEN torch_relu(x)
    ELSE x

apply_non_linearity(self, tensor) ==
    [j \in 1..Len(tensor) |-> apply_non_linearity_elem(self, tensor[j])]

\* `[...] if self.non_linearity else self.mergers`: None is falsy
constrained(self, ms) ==
    IF self.non_linearity # "None"
    THEN [i \in 1..Len(ms) |-> apply_non_linearity(self, ms[i])]
    ELSE ms

\* get_dam_weight with the nonlinearity forgotten: the raw mergers weight the sum
get_dam_weight_raw_mergers(self) ==
    LET pairs == Zip(self.mergers, self.weights)
    IN  PySumMat([k \in 1..Len(pairs) |-> MulBroadcastCols(pairs[k][1], pairs[k][2])])

get_dam_weight(self) ==
    LET pairs == Zip(constrained(self, self.mergers), self.weights)
    IN  PySumMat([k \in 1..Len(pairs) |-> MulBroadcastCols(pairs[k][1], pairs[k][2])])

\* get_dam_bias with the bias mergers forgotten: the plain sum of the biases
get_dam_bias_unweighted(self) ==
    IF self.has_biases
    THEN PySumVec([k \in 1..Len(self.biases) |-> MulBroadcastScalar(<<100>>, self.biases[k])])
    ELSE None

get_dam_bias(self) ==
    IF self.has_biases
    THEN LET pairs == Zip(constrained(self, self.bias_mergers), self.biases)
         IN  PySumVec([k \in 1..Len(pairs) |-> MulBroadcastScalar(pairs[k][1], pairs[k][2])])
    ELSE None

\* forward testing `if model_index:` instead of `is not None`: index 0 is falsy
forward_falsy_index(self, hidden_states, model_index) ==
    IF model_index # None /\ model_index # Some(0)
    THEN LET weight == self.weights[model_index[1] + 1]
             bias == IF self.has_biases THEN self.biases[model_index[1] + 1] ELSE None
         IN  F_linear(hidden_states, weight, bias)
    ELSE F_linear(hidden_states, get_dam_weight(self), get_dam_bias(self))

\* model_index is None or Some(a 0-based index)
forward(self, hidden_states, model_index) ==
    IF model_index # None
    THEN LET weight == self.weights[model_index[1] + 1]
             bias == IF self.has_biases THEN self.biases[model_index[1] + 1] ELSE None
         IN  F_linear(hidden_states, weight, bias)
    ELSE LET weight == get_dam_weight(self)
             bias == IF get_dam_bias(self) # None THEN get_dam_bias(self) ELSE None
         IN  F_linear(hidden_states, weight, bias)

\* compute_mergers_similarity with torch.sum in place of torch.mean
compute_mergers_similarity_sum(self, lambda_coef) ==
    IF lambda_coef = None THEN [type |-> "float", val |-> 0]
    ELSE LET combinations == itertools_combinations2(self.mergers)
         IN  IF Len(combinations) > 0
             THEN [type |-> "tensor",
                   val |-> SumSeq([k \in 1..Len(combinations) |->
                              F_cosine_similarity(combinations[k][1], combinations[k][2])])
                           * lambda_coef[1]]
             ELSE [type |-> "float", val |-> 0]

\* The result is a Python float on the two early paths and a tensor otherwise.
compute_mergers_similarity(self, lambda_coef) ==
    IF lambda_coef = None THEN [type |-> "float", val |-> 0]
    ELSE LET combinations == itertools_combinations2(self.mergers)
             num_combinations == Len(combinations)
         IN  IF num_combinations > 0
             THEN LET similarities ==
                          [k \in 1..num_combinations |->
                              F_cosine_similarity(combinations[k][1], combinations[k][2])]
                      mean == SumSeq(similarities) \div num_combinations
                  IN  [type |-> "tensor", val |-> mean * lambda_coef[1]]
             ELSE [type |-> "float", val |-> 0]

compute_mergers_L1_L2_reg(self, lambda_coef_l1, lambda_coef_l2) ==
    LET l1_reg == IF lambda_coef_l1 # None
                  THEN SumSeq([i \in 1..Len(self.mergers) |-> Norm1(self.mergers[i])]) * lambda_coef_l1[1]
                  ELSE 0
        l2_reg == IF lambda_coef_l2 # None
                  THEN SumSeq([i \in 1..Len(self.mergers) |-> Norm2(self.mergers[i])]) * lambda_coef_l2[1]
                  ELSE 0
    IN  [type |-> "tensor", val |-> l1_reg + l2_reg]

\* unfreeze returning from inside the loop: only the first merger is made trainable
unfreeze_first_only(self) ==
    [self EXCEPT !.mergers_requires_grad = [@ EXCEPT ![1] = TRUE]]

unfreeze(self) ==
    [self EXCEPT !.mergers_requires_grad = [i \in 1..Len(self.mergers) |-> TRUE]]

----------------------------------------------------------------------------
(* One layer under the optimizer: SpecLayer *)

\* Source weights and biases as model preparation loads them into source i:
\* population 0 is the constructor's zeros, 1 and 2 are two checkpoints.
WeightPopulation(k, i) ==
    IF k = 0 THEN << <<0, 0>>, <<0, 0>>, <<0, 0>> >>
    ELSE IF k = 1 THEN << <<i, -i>>, <<i + 1, 2>>, <<0, 3 * i>> >>
    ELSE << <<2 * i, 1>>, <<-1, i - 3>>, <<i, i>> >>

BiasPopulation(k, i) ==
    IF k = 0 THEN <<0, 0, 0>>
    ELSE IF k = 1 THEN <<i, -1, 2>>
    ELSE <<-i, 3, i + 1>>

Populations == {0, 1, 2}

\* Merger values an optimizer step may leave in source i (hundredths):
\* 1 is source 1 alone (ones against zeros), 2 and 3 differ per channel.
MergerUpdate(k, i) ==
    IF k = 1 THEN (IF i = 1 THEN <<100, 100>> ELSE <<0, 0>>)
    ELSE IF k = 2 THEN <<50 * i - 100, 100>>
    ELSE <<-100, 200 - 50 * i>>

BiasMergerUpdate(k, i) ==
    IF k = 1 THEN (IF i = 1 THEN <<100>> ELSE <<0>>)
    ELSE IF k = 2 THEN <<50 * i - 100>>
    ELSE <<-50>>

MergerUpdates == {1, 2, 3}

\* init_merger_values given to the constructor: [] (the 1/N default) or a list
InitMergerValues(n) ==
    { <<>>, [i \in 1..n |-> IF i = 1 THEN 100 ELSE 0], [i \in 1..n |-> 50 * i - 100] }

\* a constructed layer with its weights populated and, when frozen, every
\* parameter's requires_grad cleared by model preparation
PreparedLayer(n, bias, init, nl, pop, frozen) ==
    LET l == DAMLinearLayer(n, bias, init, nl)
    IN  [l EXCEPT
            !.weights = [i \in 1..n |-> WeightPopulation(pop, i)],
            !.biases = IF bias THEN [i \in 1..n |-> BiasPopulation(pop, i)] ELSE <<>>,
            !.weights_requires_grad = [i \in 1..n |-> ~frozen],
            !.mergers_requires_grad = [i \in 1..n |-> ~frozen],
            !.bias_mergers_requires_grad = IF bias THEN [i \in 1..n |-> ~frozen] ELSE <<>>]

\* the layer InitTrainer leaves in `layer`, and the model InitLayer leaves in `model`
NoLayer == DAMLinearLayer(1, FALSE, <<>>, "None")

NoTrainer == [lambda_coef |-> None, lambda_coef_reg |-> None, use_kl |-> FALSE, use_mse |-> FALSE]

InitLayer ==
    /\ \E n \in 1..MaxModels, bias \in BOOLEAN, nl \in NonLinearities,
          pop \in Populations, frozen \in BOOLEAN :
          \E init \in InitMergerValues(n) :
              layer = PreparedLayer(n, bias, init, nl, pop, frozen)
    /\ changed = FALSE
    /\ model = <<>>
    /\ trainer = NoTrainer
    /\ saved_model = None
    /\ op = "__init__"
    /\ args = <<>>
    /\ ret = None

\* optimizer.step(): every parameter with requires_grad is written in place
optimizer_step(self, mk, pop) ==
    [self EXCEPT
        !.mergers = [i \in 1..self.num_models |->
                        IF self.mergers_requires_grad[i] THEN MergerUpdate(mk, i) ELSE @[i]],
        !.bias_mergers = [i \in 1..Len(self.bias_mergers) |->
                        IF self.bias_mergers_requires_grad[i] THEN BiasMergerUpdate(mk, i) ELSE @[i]],
        !.weights = [i \in 1..self.num_models |->
                        IF self.weights_requires_grad[i] THEN WeightPopulation(pop, i) ELSE @[i]],
        !.biases = [i \in 1..Len(self.biases) |->
                        IF self.weights_requires_grad[i] THEN BiasPopulation(pop, i) ELSE @[i]]]

LayerOnly == UNCHANGED <<model, trainer, saved_model>>

OptimizerStep ==
    /\ \E mk \in MergerUpdates, pop \in Populations :
          /\ layer' = optimizer_step(layer, mk, pop)
          /\ args' = <<mk, pop>>
    /\ changed' = (get_dam_weight(layer') # get_dam_weight(layer)
                     \/ get_dam_bias(layer') # get_dam_bias(layer))
    /\ op' = "optimizer_step"
    /\ ret' = None
    /\ LayerOnly

GetDamWeight ==
    /\ op' = "get_dam_weight"
    /\ args' = <<>>
    /\ ret' = get_dam_weight(layer)
    /\ UNCHANGED <<layer, changed>>
    /\ LayerOnly

GetDamBias ==
    /\ op' = "get_dam_bias"
    /\ args' = <<>>
    /\ ret' = get_dam_bias(layer)
    /\ UNCHANGED <<layer, changed>>
    /\ LayerOnly

HiddenStates == { <<1, 0>>, <<2, -1>> }

Forward ==
    /\ \E x \in HiddenStates, mi \in {None} \cup {Some(i) : i \in 0..(layer.num_models - 1)} :
          /\ args' = <<x, mi>>
          /\ ret' = forward(layer, x, mi)
    /\ op' = "forward"
    /\ UNCHANGED <<layer, changed>>
    /\ LayerOnly

Coefficients == {None, Some(1), Some(3)}

ComputeMergersSimilarity ==
    /\ \E c \in Coefficients :
          /\ args' = <<c>>
          /\ ret' = compute_mergers_similarity(layer, c)
    /\ op' = "compute_mergers_similarity"
    /\ UNCHANGED <<layer, changed>>
    /\ LayerOnly

ComputeMergersL1L2Reg ==
    /\ \E c1 \in {None, Some(1)}, c2 \in {None, Some(3)} :
          /\ args' = <<c1, c2>>
          /\ ret' = compute_mergers_L1_L2_reg(layer, c1, c2)
    /\ op' = "compute_mergers_L1_L2_reg"
    /\ UNCHANGED <<layer, changed>>
    /\ LayerOnly

Unfreeze ==
    /\ layer' = unfreeze(layer)
    /\ op' = "unfreeze"
    /\ args' = <<>>
    /\ ret' = None
    /\ UNCHANGED changed
    /\ LayerOnly

NextLayer ==
    \/ OptimizerStep
    \/ GetDamWeight
    \/ GetDamBias
    \/ Forward
    \/ ComputeMergersSimilarity
    \/ ComputeMergersL1L2Reg
    \/ Unfreeze

SpecLayer == InitLayer /\ [][NextLayer]_vars

----------------------------------------------------------------------------
(* The model as a module tree *)

\* A module: an `Other` module has no weight attribute (a container, an
\* activation), a `Linear` has weight and bias (bias None when built without),
\* a `DAMLinearLayer` carries its layer in dam.
OtherModule == [kind |-> "Other", dam |-> NoLayer, weight |-> None, bias |-> None]

LinearModule(weight, bias) == [kind |-> "Linear", dam |-> NoLayer, weight |-> weight, bias |-> bias]

DAMModule(l) == [kind |-> "DAMLinearLayer", dam |-> l, weight |-> None, bias |-> None]

ParameterListModule == [kind |-> "ParameterList", dam |-> NoLayer, weight |-> None, bias |-> None]

\* the nn.ParameterList children a DAMLinearLayer registers, in order: weights
\* and mergers in DAMBaseLayer.__init__, biases and bias_mergers with bias
dam_children(l) ==
    IF l.has_biases
    THEN <<ParameterListModule, ParameterListModule, ParameterListModule, ParameterListModule>>
    ELSE <<ParameterListModule, ParameterListModule>>

\* nn.Module.named_modules() / modules(): every module of the tree in
\* pre-order, each followed by its descendants
RECURSIVE named_modules(_)
named_modules(m) ==
    IF Len(m) = 0 THEN <<>>
    ELSE (IF m[1].kind = "DAMLinearLayer"
          THEN <<m[1]>> \o dam_children(m[1].dam)
          ELSE <<m[1]>>)
         \o named_modules(Tail(m))

\* the names hasattr finds on a module
Attributes(module) ==
    IF module.kind = "DAMLinearLayer"
    THEN {"weights", "mergers", "compute_mergers_similarity", "compute_mergers_L1_L2_reg",
          "unfreeze", "apply_non_linearity", "get_dam_weight", "get_dam_bias", "forward"}
         \cup (IF module.dam.has_biases THEN {"biases", "bias_mergers"} ELSE {})
    ELSE IF module.kind = "Linear" THEN {"weight", "bias", "forward"}
    ELSE {"forward"}

hasattr(module, name) == name \in Attributes(module)

\* module.<name>(coef) for the penalty methods; coef is the first positional argument
call_method(module, name, coef) ==
    CASE name = "compute_mergers_similarity" -> compute_mergers_similarity(module.dam, coef)
      [] name = "compute_mergers_L1_L2_reg" -> compute_mergers_L1_L2_reg(module.dam, coef, None)

\* AutoModelForCausalLM.from_pretrained(base_model_path): the architecture of
\* the trained model with a plain linear layer, holding the base checkpoint's
\* weight, at each position of a DAMLinearLayer
BaseWeight == << <<7, 7>>, <<8, 8>>, <<9, 9>> >>

BaseBias == <<7, 8, 9>>

from_pretrained(m) ==
    [p \in 1..Len(m) |->
        IF m[p].kind = "DAMLinearLayer"
        THEN LinearModule(BaseWeight, IF m[p].dam.has_biases THEN BaseBias ELSE None)
        ELSE m[p]]

----------------------------------------------------------------------------
(* DAMTrainer *)

\* the loop of save_model over zip(self.model.named_modules(),
\* new_model.named_modules()), from pair k on; new is the new model so far
RECURSIVE merging_layers(_, _, _)
merging_layers(pairs, k, new) ==
    IF k > Len(pairs) THEN [status |-> "ok", new_model |-> new]
    ELSE LET module == pairs[k][1]
             new_module == new[k]
         IN  IF module.kind = "DAMLinearLayer"
             THEN LET merged_weight == get_dam_weight(module.dam)
                      merged_bias == get_dam_bias(module.dam)
                  IN  IF ~hasattr(new_module, "weight")
                      THEN [status |-> "AttributeError", new_model |-> new]
                      ELSE IF merged_bias # None
                      THEN IF new_module.bias = None
                           THEN [status |-> "AttributeError",
                                 new_model |-> [new EXCEPT ![k].weight = merged_weight]]
                           ELSE merging_layers(pairs, k + 1,
                                    [new EXCEPT ![k].weight = merged_weight,
                                                ![k].bias = merged_bias])
                      ELSE merging_layers(pairs, k + 1, [new EXCEPT ![k].weight = merged_weight])
             ELSE merging_layers(pairs, k + 1, new)

\* save_model up to save_pretrained: the new model and whether the loop raised
save_model(self_model) ==
    LET new_model == from_pretrained(self_model)
    IN  merging_layers(Zip(named_modules(self_model), named_modules(new_model)), 1, new_model)

\* The batch: which of the keys input_ids_i, attention_mask_i and
\* topk_logits_model_i / topk_indices_model_i it holds.
\* merged_model(input_ids, attention_mask).logits, named by the keys it was run on
merged_model(input_key, mask_key) == [input |-> input_key, mask |-> mask_key]

\* the KL term of lines 60-67 and the MSE term of lines 79-82 for one source,
\* as numbers in units of 1e-4 that tell the logits and the teacher record apart
kl_loss(merged_logits, topk_key) ==
    10000 * (3 * merged_logits.input + merged_logits.mask) + 100 * topk_key

mse_loss(merged_logits, topk_key) ==
    20000 * (5 * merged_logits.input + merged_logits.mask) + 300 * topk_key + 7

\* lines 31-40: num_inputs and the lookups of the per-source inputs
prepare_inputs(inputs) ==
    LET num_inputs == Cardinality(inputs.input_ids)
        missing == {i \in 1..num_inputs : i \notin inputs.input_ids \/ i \notin inputs.attention_mask}
    IN  [num_inputs |-> num_inputs,
         status |-> IF missing = {} THEN "ok" ELSE "KeyError"]

\* forward_passes with the attention mask of source 1 passed for every source
forward_passes_first_mask(num_inputs) ==
    [i \in 1..num_inputs |-> merged_model(i, 1)]

\* lines 43-48: one run of the model per source, on its own input and mask
forward_passes(num_inputs) ==
    [i \in 1..num_inputs |-> merged_model(i, i)]

\* lines 53-69 and 72-84: one loop of distillation terms, from source i on;
\* acc is [status, total, terms]
RECURSIVE distillation_loop(_, _, _, _, _)
distillation_loop(kind, inputs, merged_logits_dict, i, acc) ==
    IF i > Len(merged_logits_dict) \/ acc.status # "ok" THEN acc
    ELSE IF i \notin inputs.topk THEN [acc EXCEPT !.status = "KeyError"]
    ELSE LET merged_logits == merged_logits_dict[i]
             term == IF kind = "kl" THEN kl_loss(merged_logits, i) ELSE mse_loss(merged_logits, i)
         IN  distillation_loop(kind, inputs, merged_logits_dict, i + 1,
                 [acc EXCEPT !.total = @ + term,
                             !.terms = Append(@, [kind |-> kind, logits |-> merged_logits,
                                                  topk |-> i])])

\* lines 87-93: the walk over merged_model.modules(), from module k on;
\* acc is [status, similarity_loss, l2_reg]
RECURSIVE regularization_walk(_, _, _, _)
regularization_walk(self, modules, k, acc) ==
    IF k > Len(modules) \/ acc.status # "ok" THEN acc
    ELSE LET module == modules[k]
             sim == IF hasattr(module, "compute_mergers_similarity")
                    THEN call_method(module, "compute_mergers_similarity", self.lambda_coef)
                    ELSE [type |-> "tensor", val |-> 0]
             reg == IF hasattr(module, "compute_mergers_L2_reg")
                    THEN call_method(module, "compute_mergers_L2_reg", self.lambda_coef_reg)
                    ELSE [type |-> "tensor", val |-> 0]
         IN  IF sim.type # "tensor" \/ reg.type # "tensor"
             THEN [acc EXCEPT !.status = "AttributeError"]   \* a float has no .to
             ELSE regularization_walk(self, modules, k + 1,
                      [acc EXCEPT !.similarity_loss = @ + sim.val, !.l2_reg = @ + reg.val])

Raised(status, forwards, terms) ==
    [status |-> status, loss |-> None, outputs |-> None, forwards |-> forwards, terms |-> terms]

compute_loss(self, merged_model_modules, inputs, return_outputs) ==
    LET prep == prepare_inputs(inputs)
    IN  IF prep.status # "ok" THEN Raised(prep.status, <<>>, <<>>)
        ELSE
        LET merged_logits_dict == forward_passes(prep.num_inputs)
            start == [status |-> "ok", total |-> 0, terms |-> <<>>]
            kl == IF self.use_kl
                  THEN distillation_loop("kl", inputs, merged_logits_dict, 1, start)
                  ELSE start
            mse == IF self.use_mse
                   THEN distillation_loop("mse", inputs, merged_logits_dict, 1, kl)
                   ELSE kl
        IN  IF mse.status # "ok" THEN Raised(mse.status, merged_logits_dict, mse.terms)
            ELSE
            LET walk == regularization_walk(self, named_modules(merged_model_modules), 1,
                            [status |-> "ok", similarity_loss |-> 0, l2_reg |-> 0])
                total_loss == mse.total + walk.similarity_loss + walk.l2_reg
            IN  IF walk.status # "ok" THEN Raised(walk.status, merged_logits_dict, mse.terms)
                ELSE IF return_outputs /\ prep.num_inputs = 0
                THEN Raised("UnboundLocalError", merged_logits_dict, mse.terms)
                ELSE [status |-> "ok",
                      loss |-> Some(total_loss),
                      outputs |-> IF return_outputs
                                  THEN Some(merged_logits_dict[prep.num_inputs])
                                  ELSE None,
                      forwards |-> merged_logits_dict,
                      terms |-> mse.terms]

----------------------------------------------------------------------------
(* The trainer on a prepared model: SpecTrainer *)

\* the most modules below the root of a model
MaxModules == 2

\* the largest per-source key index of a batch
MaxSources == 2

\* the modules a prepared model is built from: two plain modules, a merge
\* layer of one source and a merge layer of two sources with bias
ModuleSamples ==
    { OtherModule,
      LinearModule(BaseWeight, None),
      DAMModule(PreparedLayer(1, FALSE, <<>>, "tanh", 1, FALSE)),
      DAMModule(PreparedLayer(2, TRUE, <<100, -50>>, "sigmoid", 2, FALSE)) }

\* the root module followed by up to MaxModules modules in pre-order
Models ==
    UNION { {<<OtherModule>> \o m : m \in [1..n -> ModuleSamples]} : n \in 0..MaxModules }

\* lambda_coef and lambda_coef_reg set or unset, use_kl and use_mse on or off
Trainers ==
    { [lambda_coef |-> c[1], lambda_coef_reg |-> c[2], use_kl |-> kl, use_mse |-> mse] :
        c \in { <<Some(1), Some(2)>>, <<None, Some(2)>>, <<Some(1), None>> },
        kl \in BOOLEAN, mse \in BOOLEAN }

KeyIndices == 1..MaxSources

\* any set of input_ids keys; every mask and teacher record, or source 1's
\* mask or teacher record missing
Batches ==
    { [input_ids |-> ids, attention_mask |-> rest[1], topk |-> rest[2]] :
        ids \in SUBSET KeyIndices,
        rest \in { <<KeyIndices, KeyIndices>>,
                   <<KeyIndices \ {1}, KeyIndices>>,
                   <<KeyIndices, KeyIndices \ {1}>> } }

InitTrainer ==
    /\ model \in Models
    /\ trainer \in Trainers
    /\ saved_model = None
    /\ layer = NoLayer
    /\ changed = FALSE
    /\ op = "__init__"
    /\ args = <<>>
    /\ ret = None

\* a training step; training ends when the model is saved
ComputeLoss ==
    /\ op # "save_model"
    /\ \E inputs \in Batches, return_outputs \in BOOLEAN :
          /\ args' = <<inputs, return_outputs>>
          /\ ret' = compute_loss(trainer, model, inputs, return_outputs)
    /\ op' = "compute_loss"
    /\ UNCHANGED <<layer, changed, model, trainer, saved_model>>

\* trainer.save_model(), once, after trainer.train()
SaveModel ==
    /\ op # "save_model"
    /\ LET r == save_model(model)
       IN  /\ ret' = r.status
           /\ saved_model' = IF r.status = "ok" THEN r.new_model ELSE saved_model
    /\ op' = "save_model"
    /\ args' = <<>>
    /\ UNCHANGED <<layer, changed, model, trainer>>

NextTrainer ==
    \/ ComputeLoss
    \/ SaveModel

SpecTrainer == InitTrainer /\ [][NextTrainer]_vars

----------------------------------------------------------------------------
(* Properties of the layer (SpecLayer) *)

RECURSIVE SumOver(_, _)
SumOver(S, f) ==
    IF S = {} THEN 0
    ELSE LET e == CHOOSE e \in S : TRUE IN f[e] + SumOver(S \ {e}, f)

\* the nonlinearity named by a layer's choice; identity and none change nothing
Nonlinearity(choice, x) ==
    CASE choice = "tanh" -> torch_tanh(x)
      [] choice = "sigmoid" -> torch_sigmoid(x)
      [] choice = "relu" -> torch_relu(x)
      [] OTHER -> x

Sources(l) == 1..l.num_models

\* sum over sources i of nonlinearity(merger_i) times SourceWeight_i, column by column
ExplicitMergedWeight(l) ==
    [r \in 1..3 |-> [c \in 1..2 |->
        SumOver(Sources(l),
                [i \in Sources(l) |->
                    Nonlinearity(l.non_linearity, l.mergers[i][c]) * l.weights[i][r][c]])]]

\* the same over the biases, each bias merger a single coefficient
ExplicitMergedBias(l) ==
    IF l.has_biases
    THEN [r \in 1..3 |->
            SumOver(Sources(l),
                    [i \in Sources(l) |->
                        Nonlinearity(l.non_linearity, l.bias_mergers[i][1]) * l.biases[i][r]])]
    ELSE None

\* the affine transform x W^T + b of one input row
Affine(x, W, b) ==
    [r \in 1..3 |-> x[1] * W[r][1] + x[2] * W[r][2] + (IF b = None THEN 0 ELSE b[r])]

\* C1: get_dam_weight returns exactly the sum over the sources of
\* nonlinearity(merger_i) multiplied per input channel into SourceWeight_i,
\* the mergers unmodified under identity/none.
Thm_C1_MergedWeightIsExplicitSum ==
    op = "get_dam_weight" => ret = ExplicitMergedWeight(layer)

\* C1 witness: a merged weight of two or more sources under a nonlinearity
\* that changes the mergers, with a non-zero result.
Wit_C1 ==
    /\ op = "get_dam_weight"
    /\ layer.num_models >= 2
    /\ layer.non_linearity = "sigmoid"
    /\ layer.mergers[1][1] # layer.mergers[1][2]
    /\ ret[1][1] # 0

\* C5: every call of get_dam_weight, get_dam_bias and forward in merged mode
\* returns the value determined by the parameters as they are at the moment
\* of the call, whatever was written before, and writes no parameter.
Thm_C5_NeverCached ==
    [][ /\ op' = "get_dam_weight" =>
              (ret' = ExplicitMergedWeight(layer) /\ layer' = layer)
        /\ op' = "get_dam_bias" =>
              (ret' = ExplicitMergedBias(layer) /\ layer' = layer)
        /\ (op' = "forward" /\ args'[2] = None) =>
              (/\ ret' = Affine(args'[1], ExplicitMergedWeight(layer), ExplicitMergedBias(layer))
               /\ layer' = layer) ]_vars

\* C5 witness: a merged-mode forward on a layer with bias after an optimizer
\* write that changed the merged weight or bias.
Wit_C5 ==
    /\ op = "forward"
    /\ args[2] = None
    /\ changed
    /\ layer.has_biases
    /\ layer.num_models >= 2

\* C6: forward with a model_index is the plain affine transform of that
\* source's weight and, with bias, that source's bias, and of nothing else.
Thm_C6_SourceBypass ==
    (op = "forward" /\ args[2] # None) =>
        ret = Affine(args[1],
                     layer.weights[args[2][1] + 1],
                     IF layer.has_biases THEN layer.biases[args[2][1] + 1] ELSE None)

\* C6 witness: the first source (index 0) of a layer with bias and several
\* sources, where the merged-mode result differs.
Wit_C6 ==
    /\ op = "forward"
    /\ args[2] = Some(0)
    /\ layer.has_biases
    /\ layer.num_models >= 2
    /\ ret # forward(layer, args[1], None)

Pairs(l) == {p \in Sources(l) \X Sources(l) : p[1] < p[2]}

\* C8: the similarity penalty is exactly 0 for a single source or an unset
\* coefficient; otherwise the coefficient times the average of the cosine
\* similarity over all C(N,2) unordered pairs of merger vectors.
Thm_C8_SimilarityPenalty ==
    op = "compute_mergers_similarity" =>
        IF layer.num_models = 1 \/ args[1] = None
        THEN ret.val = 0
        ELSE /\ Cardinality(Pairs(layer)) = (layer.num_models * (layer.num_models - 1)) \div 2
             /\ ret.val = args[1][1] *
                   (SumOver(Pairs(layer),
                            [p \in Pairs(layer) |->
                                F_cosine_similarity(layer.mergers[p[1]], layer.mergers[p[2]])])
                      \div Cardinality(Pairs(layer)))

\* C8 witness: three or more sources, a coefficient, a non-zero penalty.
Wit_C8 ==
    /\ op = "compute_mergers_similarity"
    /\ layer.num_models >= 3
    /\ args[1] # None
    /\ ret.val # 0

AllMergersTrainable(l) == \A i \in Sources(l) : l.mergers_requires_grad[i]

\* C10: unfreeze leaves every merger trainable and changes no value and no
\* other trainability; once every merger is trainable no operation of the
\* layer makes one frozen again.
Thm_C10_UnfreezeOneWay ==
    [][ /\ op' = "unfreeze" =>
              /\ AllMergersTrainable(layer')
              /\ layer'.weights = layer.weights
              /\ layer'.mergers = layer.mergers
              /\ layer'.biases = layer.biases
              /\ layer'.bias_mergers = layer.bias_mergers
              /\ layer'.weights_requires_grad = layer.weights_requires_grad
        /\ AllMergersTrainable(layer) => AllMergersTrainable(layer') ]_vars

\* C10 witness: an optimizer step after unfreeze on a layer prepared frozen:
\* the source weights are still frozen, the mergers were written.
Wit_C10 ==
    /\ op = "optimizer_step"
    /\ layer.num_models >= 2
    /\ \A i \in Sources(layer) : ~layer.weights_requires_grad[i]
    /\ AllMergersTrainable(layer)
    /\ changed

----------------------------------------------------------------------------
(* Properties of the trainer (SpecTrainer) *)

IsDAM(module) == module.kind = "DAMLinearLayer"

\* C2: after save_model every plain linear layer at the position of a
\* MergeLayer holds that layer's merged weight (and bias, when it has one),
\* and every other module of the fresh model is unchanged.
Claim_C2_ExportCollapsesEveryLayer ==
    op = "save_model" =>
        /\ ret = "ok"
        /\ saved_model # None
        /\ Len(saved_model) = Len(model)
        /\ \A p \in 1..Len(model) :
              IF IsDAM(model[p])
              THEN /\ saved_model[p].weight = get_dam_weight(model[p].dam)
                   /\ model[p].dam.has_biases =>
                          saved_model[p].bias = get_dam_bias(model[p].dam)
              ELSE saved_model[p] = from_pretrained(model)[p]

\* the distillation terms the claim sums: the enabled ones over all n sources
ExpectedDistillation(t, n) ==
    SumOver(1..n, [i \in 1..n |->
        (IF t.use_kl THEN kl_loss(merged_model(i, i), i) ELSE 0)
        + (IF t.use_mse THEN mse_loss(merged_model(i, i), i) ELSE 0)])

DAMPositions(m) == {p \in 1..Len(m) : IsDAM(m[p])}

\* the similarity penalties of every MergeLayer with the similarity coefficient
ExpectedSimilarity(t, m) ==
    SumOver(DAMPositions(m),
            [p \in DAMPositions(m) |-> compute_mergers_similarity(m[p].dam, t.lambda_coef).val])

\* the norm penalties of every MergeLayer with the regularization coefficient (L2)
ExpectedNorm(t, m) ==
    SumOver(DAMPositions(m),
            [p \in DAMPositions(m) |->
                compute_mergers_L1_L2_reg(m[p].dam, None, t.lambda_coef_reg).val])

\* C3: the total loss compute_loss returns is the sum of the enabled
\* distillation terms over all sources plus, for every MergeLayer of the
\* model, its similarity penalty and its norm penalty.
Claim_C3_TotalLoss ==
    (op = "compute_loss" /\ ret.status = "ok") =>
        ret.loss = Some(ExpectedDistillation(trainer, Cardinality(args[1].input_ids))
                        + ExpectedSimilarity(trainer, model)
                        + ExpectedNorm(trainer, model))

\* C4: the regularization walk of compute_loss never raises, whatever the
\* model's modules and whether the coefficients are set or unset.
Claim_C4_RegularizationNeverFails ==
    op = "compute_loss" => ret.status # "AttributeError"

\* C7: with no per-source input key in the batch compute_loss runs no forward
\* pass and no distillation term and returns exactly the regularization
\* terms, with and without return_outputs.
Claim_C7_NoSources ==
    (op = "compute_loss" /\ args[1].input_ids = {}) =>
        /\ ret.status = "ok"
        /\ ret.forwards = <<>>
        /\ ret.terms = <<>>
        /\ ret.loss = Some(ExpectedSimilarity(trainer, model) + ExpectedNorm(trainer, model))

\* the runs of the model on source i's own input and attention mask
RunsOf(i) == {k \in 1..Len(ret.forwards) : ret.forwards[k] = merged_model(i, i)}

\* every distillation term computed pairs one source's logits with that same
\* source's teacher record, each kind at most once per source
TermsPairSources ==
    /\ \A k \in 1..Len(ret.terms) :
          ret.terms[k].logits = merged_model(ret.terms[k].topk, ret.terms[k].topk)
    /\ \A k1, k2 \in 1..Len(ret.terms) :
          (ret.terms[k1].kind = ret.terms[k2].kind /\ ret.terms[k1].topk = ret.terms[k2].topk)
              => k1 = k2

\* C9 as stated: in every compute_loss step the model is run exactly once for
\* each source whose input key is present, on that source's input and mask,
\* and no other run is made.
Claim_C9_EverySourcePresentRunOnce ==
    op = "compute_loss" =>
        /\ \A i \in args[1].input_ids : Cardinality(RunsOf(i)) = 1
        /\ Len(ret.forwards) = Cardinality(args[1].input_ids)
        /\ TermsPairSources

\* the batch holds input_ids_1 .. input_ids_N and their attention masks
ContiguousInputs(inputs) ==
    /\ inputs.input_ids = 1..Cardinality(inputs.input_ids)
    /\ inputs.input_ids \subseteq inputs.attention_mask

\* C9, amended: when the input keys present are input_ids_1 .. input_ids_N,
\* each with its attention mask, the model is run exactly once per source on
\* that source's input and mask whichever of KL and MSE are enabled, and
\* every distillation term is computed against the same source's teacher
\* record; on any other batch no run is made at all.
Thm_C9_ContiguousSourcesRunOnce ==
    op = "compute_loss" =>
        IF ContiguousInputs(args[1])
        THEN /\ \A i \in args[1].input_ids : Cardinality(RunsOf(i)) = 1
             /\ Len(ret.forwards) = Cardinality(args[1].input_ids)
             /\ TermsPairSources
        ELSE ret.status = "KeyError" /\ ret.forwards = <<>> /\ ret.terms = <<>>

\* C9 witness: two sources, KL and MSE both enabled, a completed step with
\* two runs and four terms.
Wit_C9 ==
    /\ op = "compute_loss"
    /\ args[1].input_ids = {1, 2}
    /\ trainer.use_kl /\ trainer.use_mse
    /\ ret.status = "ok"
    /\ Len(ret.forwards) = 2
    /\ Len(ret.terms) = 4

====
